---------------------------- MODULE Spec2Model ----------------------------
(***************************************************************************)
(* Model of crates/ai_error/src/lib.rs: the AiError enum, its Display      *)
(* rendering (derived by thiserror from the #[error] attributes), the      *)
(* From conversions (derived from #[from]) and the three query methods     *)
(* error_code, is_retryable and retry_after.                               *)
(*                                                                         *)
(* A state is one AiError value after construction together with the       *)
(* results its methods have returned so far.  Strings are TLA+ strings,    *)
(* Option<T> is a sequence of length at most one, Duration is a record     *)
(* of whole seconds and nanoseconds.                                       *)
(***************************************************************************)
EXTENDS Integers, Sequences, FiniteSets, TLC

VARIABLES self, origin, ret, first, ncalls

vars == <<self, origin, ret, first, ncalls>>

---------------------------------------------------------------------------
(* Bounds *)

\* longest String payload (messages, tool names, provider names, codes)
MaxLen == 1
\* longest message text of a foreign reqwest / serde_json error
MaxMsgLen == 2
\* largest Duration payload, in whole seconds
MaxSecs == 3
\* number of method calls made on one value
MaxCalls == 4

\* characters payload strings are made of; both occur in the #[error] templates
Chars == {"e", ":"}

---------------------------------------------------------------------------
(* Option<T> *)

None == <<>>

Some(x) == <<x>>

Option(S) == {None} \cup {Some(x) : x \in S}

---------------------------------------------------------------------------
(* Payload types *)

RECURSIVE Text(_)
Text(n) == IF n = 0 THEN {""}
           ELSE Text(n - 1) \cup {s \o c : s \in Text(n - 1), c \in Chars}

String == Text(MaxLen)

from_secs(s) == [secs |-> s, nanos |-> 0]

Duration == {from_secs(s) : s \in 0..MaxSecs}

\* the foreign error types, known here only through their Display text
ReqwestError == [crate : {"reqwest"}, message : Text(MaxMsgLen)]

SerdeJsonError == [crate : {"serde_json"}, message : Text(MaxMsgLen)]

ForeignDisplay(f) == f.message

---------------------------------------------------------------------------
(* enum AiError *)

Variant == {"Auth", "RateLimit", "Tool", "Validation", "Network", "Provider",
            "Timeout", "Serialization", "Internal", "NoSuchTool",
            "InvalidToolInput", "SchemaValidation", "Stream", "Config"}

AiErrorOf(v) ==
    CASE v = "Auth"             -> [tag : {v}, f0 : String]
      [] v = "RateLimit"        -> [tag : {v}, retry_after : Option(Duration)]
      [] v = "Tool"             -> [tag : {v}, tool_name : String, message : String]
      [] v = "Validation"       -> [tag : {v}, f0 : String]
      [] v = "Network"          -> [tag : {v}, f0 : ReqwestError]
      [] v = "Provider"         -> [tag : {v}, provider : String, message : String,
                                    code : Option(String)]
      [] v = "Timeout"          -> [tag : {v}, f0 : Duration]
      [] v = "Serialization"    -> [tag : {v}, f0 : SerdeJsonError]
      [] v = "Internal"         -> [tag : {v}, f0 : String]
      [] v = "NoSuchTool"       -> [tag : {v}, f0 : String]
      [] v = "InvalidToolInput" -> [tag : {v}, tool_name : String, reason : String]
      [] v = "SchemaValidation" -> [tag : {v}, f0 : String]
      [] v = "Stream"           -> [tag : {v}, f0 : String]
      [] v = "Config"           -> [tag : {v}, f0 : String]

AiError == UNION {AiErrorOf(v) : v \in Variant}

\* a lossy conversion: keeps only the first character of the fault's text
FromReqwestTruncating(source) ==
    [tag |-> "Network",
     f0  |-> [source EXCEPT !.message =
                 IF Len(source.message) <= 1 THEN source.message
                 ELSE SubSeq(source.message, 1, 1)]]

\* impl From<reqwest::Error> for AiError
FromReqwest(source) == [tag |-> "Network", f0 |-> source]

\* impl From<serde_json::Error> for AiError
FromSerdeJson(source) == [tag |-> "Serialization", f0 |-> source]

---------------------------------------------------------------------------
(* impl AiError *)

\* Stream reported under the code of Internal
error_code_StreamAsInternal(e) ==
    CASE e.tag = "Auth"             -> "AUTH_ERROR"
      [] e.tag = "RateLimit"        -> "RATE_LIMIT_ERROR"
      [] e.tag = "Tool"             -> "TOOL_ERROR"
      [] e.tag = "Validation"       -> "VALIDATION_ERROR"
      [] e.tag = "Network"          -> "NETWORK_ERROR"
      [] e.tag = "Provider"         -> "PROVIDER_ERROR"
      [] e.tag = "Timeout"          -> "TIMEOUT_ERROR"
      [] e.tag = "Serialization"    -> "SERIALIZATION_ERROR"
      [] e.tag = "Internal"         -> "INTERNAL_ERROR"
      [] e.tag = "NoSuchTool"       -> "TOOL_ERROR"
      [] e.tag = "InvalidToolInput" -> "TOOL_ERROR"
      [] e.tag = "SchemaValidation" -> "VALIDATION_ERROR"
      [] e.tag = "Stream"           -> "INTERNAL_ERROR"
      [] e.tag = "Config"           -> "CONFIG_ERROR"

\* Provider passes on the provider's own code when it carries one
error_code_ProviderOwnCode(e) ==
    CASE e.tag = "Auth"             -> "AUTH_ERROR"
      [] e.tag = "RateLimit"        -> "RATE_LIMIT_ERROR"
      [] e.tag = "Tool"             -> "TOOL_ERROR"
      [] e.tag = "Validation"       -> "VALIDATION_ERROR"
      [] e.tag = "Network"          -> "NETWORK_ERROR"
      [] e.tag = "Provider"         ->
            IF e.code = None THEN "PROVIDER_ERROR" ELSE e.code[1]
      [] e.tag = "Timeout"          -> "TIMEOUT_ERROR"
      [] e.tag = "Serialization"    -> "SERIALIZATION_ERROR"
      [] e.tag = "Internal"         -> "INTERNAL_ERROR"
      [] e.tag = "NoSuchTool"       -> "TOOL_ERROR"
      [] e.tag = "InvalidToolInput" -> "TOOL_ERROR"
      [] e.tag = "SchemaValidation" -> "VALIDATION_ERROR"
      [] e.tag = "Stream"           -> "STREAM_ERROR"
      [] e.tag = "Config"           -> "CONFIG_ERROR"

error_code(e) ==
    CASE e.tag = "Auth"             -> "AUTH_ERROR"
      [] e.tag = "RateLimit"        -> "RATE_LIMIT_ERROR"
      [] e.tag = "Tool"             -> "TOOL_ERROR"
      [] e.tag = "Validation"       -> "VALIDATION_ERROR"
      [] e.tag = "Network"          -> "NETWORK_ERROR"
      [] e.tag = "Provider"         -> "PROVIDER_ERROR"
      [] e.tag = "Timeout"          -> "TIMEOUT_ERROR"
      [] e.tag = "Serialization"    -> "SERIALIZATION_ERROR"
      [] e.tag = "Internal"         -> "INTERNAL_ERROR"
      [] e.tag = "NoSuchTool"       -> "TOOL_ERROR"
      [] e.tag = "InvalidToolInput" -> "TOOL_ERROR"
      [] e.tag = "SchemaValidation" -> "VALIDATION_ERROR"
      [] e.tag = "Stream"           -> "STREAM_ERROR"
      [] e.tag = "Config"           -> "CONFIG_ERROR"

\* Timeout left out of the pattern
is_retryable_NoTimeout(e) ==
    \/ e.tag = "RateLimit"
    \/ e.tag = "Network"

\* Stream added to the pattern
is_retryable_AlsoStream(e) ==
    \/ e.tag = "RateLimit"
    \/ e.tag = "Network"
    \/ e.tag = "Timeout"
    \/ e.tag = "Stream"

\* Tool added to the pattern, NoSuchTool and InvalidToolInput not
is_retryable_AlsoTool(e) ==
    \/ e.tag = "RateLimit"
    \/ e.tag = "Network"
    \/ e.tag = "Timeout"
    \/ e.tag = "Tool"

is_retryable(e) ==
    \/ e.tag = "RateLimit"
    \/ e.tag = "Network"
    \/ e.tag = "Timeout"

\* RateLimit without a duration falls back to a default
retry_after_RateLimitDefault(e) ==
    CASE e.tag = "RateLimit" ->
            IF e.retry_after = None THEN Some(from_secs(1)) ELSE e.retry_after
      [] e.tag = "Network"   -> Some(from_secs(1))
      [] e.tag = "Timeout"   -> Some(from_secs(2))
      [] OTHER               -> None

\* Timeout echoes the duration it carries
retry_after_TimeoutEcho(e) ==
    CASE e.tag = "RateLimit" -> e.retry_after
      [] e.tag = "Network"   -> Some(from_secs(1))
      [] e.tag = "Timeout"   -> Some(e.f0)
      [] OTHER               -> None

\* Provider given a delay of its own
retry_after_ProviderDelay(e) ==
    CASE e.tag = "RateLimit" -> e.retry_after
      [] e.tag = "Network"   -> Some(from_secs(1))
      [] e.tag = "Timeout"   -> Some(from_secs(2))
      [] e.tag = "Provider"  -> Some(from_secs(1))
      [] OTHER               -> None

retry_after(e) ==
    CASE e.tag = "RateLimit" -> e.retry_after
      [] e.tag = "Network"   -> Some(from_secs(1))
      [] e.tag = "Timeout"   -> Some(from_secs(2))
      [] OTHER               -> None

---------------------------------------------------------------------------
(* #[derive(Error)]: the Display text of each variant *)

Digit(n) == SubSeq("0123456789", n + 1, n + 1)

RECURSIVE Decimal(_)
Decimal(n) == IF n < 10 THEN Digit(n) ELSE Decimal(n \div 10) \o Digit(n % 10)

\* {:?} of a Duration of whole seconds
DebugDuration(d) == Decimal(d.secs) \o "s"

fmt(e) ==
    CASE e.tag = "Auth"             -> "Authentication failed: " \o e.f0
      [] e.tag = "RateLimit"        ->
            "Rate limit exceeded"
            \o (IF e.retry_after = None THEN ""
                ELSE ", retry after " \o DebugDuration(e.retry_after[1]))
      [] e.tag = "Tool"             ->
            "Tool error in '" \o e.tool_name \o "': " \o e.message
      [] e.tag = "Validation"       -> "Validation error: " \o e.f0
      [] e.tag = "Network"          -> "Network error: " \o ForeignDisplay(e.f0)
      [] e.tag = "Provider"         ->
            "Provider error (" \o e.provider \o ")"
            \o (IF e.code = None THEN "" ELSE " [" \o e.code[1] \o "]")
            \o ": " \o e.message
      [] e.tag = "Timeout"          -> "Request timeout after " \o DebugDuration(e.f0)
      [] e.tag = "Serialization"    -> "Serialization error: " \o ForeignDisplay(e.f0)
      [] e.tag = "Internal"         -> "Internal error: " \o e.f0
      [] e.tag = "NoSuchTool"       -> "No such tool: " \o e.f0
      [] e.tag = "InvalidToolInput" ->
            "Invalid tool input for '" \o e.tool_name \o "': " \o e.reason
      [] e.tag = "SchemaValidation" -> "Schema validation failed: " \o e.f0
      [] e.tag = "Stream"           -> "Stream error: " \o e.f0
      [] e.tag = "Config"           -> "Configuration error: " \o e.f0

---------------------------------------------------------------------------
(* The state machine: one value, constructed once, then queried *)

Ops == {"error_code", "is_retryable", "retry_after", "fmt"}

NoCalls == [op \in Ops |-> None]

\* the value is built directly at the failure site ...
InitDirect ==
    /\ self \in AiError
    /\ origin = None

\* ... or converted from a transport fault ...
InitFromReqwest ==
    \E f \in ReqwestError :
        /\ self = FromReqwest(f)
        /\ origin = Some(f)

\* ... or converted from a codec fault
InitFromSerdeJson ==
    \E f \in SerdeJsonError :
        /\ self = FromSerdeJson(f)
        /\ origin = Some(f)

Init ==
    /\ (InitDirect \/ InitFromReqwest \/ InitFromSerdeJson)
    /\ ret = NoCalls
    /\ first = NoCalls
    /\ ncalls = 0

\* bookkeeping of one returned value r of method op
Returned(op, r) ==
    /\ ret' = [ret EXCEPT ![op] = Some(r)]
    /\ first' = IF first[op] = None THEN [first EXCEPT ![op] = Some(r)] ELSE first
    /\ ncalls' = ncalls + 1

ErrorCodeCall ==
    /\ ncalls < MaxCalls
    /\ Returned("error_code", error_code(self))
    /\ UNCHANGED <<self, origin>>

IsRetryableCall ==
    /\ ncalls < MaxCalls
    /\ Returned("is_retryable", is_retryable(self))
    /\ UNCHANGED <<self, origin>>

\* retry_after written with Option::take: the call empties the carried duration
RetryAfterCallTaking ==
    /\ ncalls < MaxCalls
    /\ Returned("retry_after", retry_after(self))
    /\ self' = IF self.tag = "RateLimit" THEN [self EXCEPT !.retry_after = None]
               ELSE self
    /\ UNCHANGED origin

RetryAfterCall ==
    /\ ncalls < MaxCalls
    /\ Returned("retry_after", retry_after(self))
    /\ UNCHANGED <<self, origin>>

ToStringCall ==
    /\ ncalls < MaxCalls
    /\ Returned("fmt", fmt(self))
    /\ UNCHANGED <<self, origin>>

Next ==
    \/ ErrorCodeCall
    \/ IsRetryableCall
    \/ RetryAfterCall
    \/ ToStringCall

Spec == Init /\ [][Next]_vars

---------------------------------------------------------------------------
(* Vocabulary of the properties *)

Called(op) == ret[op] # None

Result(op) == ret[op][1]

Transient == {"RateLimit", "Network", "Timeout"}

\* the enumeration of wire codes
Codes == {"AUTH_ERROR", "RATE_LIMIT_ERROR", "TOOL_ERROR", "VALIDATION_ERROR",
          "NETWORK_ERROR", "PROVIDER_ERROR", "TIMEOUT_ERROR",
          "SERIALIZATION_ERROR", "INTERNAL_ERROR", "STREAM_ERROR", "CONFIG_ERROR"}

\* the reference table of wire codes
RefCode ==
    [v \in Variant |->
        CASE v \in {"Tool", "NoSuchTool", "InvalidToolInput"} -> "TOOL_ERROR"
          [] v \in {"Validation", "SchemaValidation"}         -> "VALIDATION_ERROR"
          [] v = "Auth"          -> "AUTH_ERROR"
          [] v = "RateLimit"     -> "RATE_LIMIT_ERROR"
          [] v = "Network"       -> "NETWORK_ERROR"
          [] v = "Provider"      -> "PROVIDER_ERROR"
          [] v = "Timeout"       -> "TIMEOUT_ERROR"
          [] v = "Serialization" -> "SERIALIZATION_ERROR"
          [] v = "Internal"      -> "INTERNAL_ERROR"
          [] v = "Stream"        -> "STREAM_ERROR"
          [] v = "Config"        -> "CONFIG_ERROR"]

\* the variants said to have a code of their own
OwnCode == {"Auth", "RateLimit", "Network", "Provider", "Timeout",
            "Serialization", "Internal", "Stream", "Config"}

\* m occurs in text as a contiguous substring
Contains(text, m) ==
    \E i \in 1..(Len(text) - Len(m) + 1) : SubSeq(text, i, i + Len(m) - 1) = m

\* the variants on some value of which is_retryable returns false
NonRetryableVariants ==
    {v \in Variant : \E e \in AiErrorOf(v) : ~is_retryable(e)}

---------------------------------------------------------------------------
(* C1: whatever the variant and payload of the value, a call of            *)
(* is_retryable returns true if and only if the variant is RateLimit,      *)
(* Network or Timeout.                                                     *)
C1_RetryableIffTransient ==
    Called("is_retryable") =>
        (Result("is_retryable") <=> self.tag \in Transient)

C1_Witness ==
    /\ self.tag = "Timeout"
    /\ ret["is_retryable"] = Some(TRUE)

(* C2: a call of error_code returns the code of the reference table, a     *)
(* non-empty member of the eleven-code enumeration; a variant with a code  *)
(* of its own shares it with no other variant; every one of the eleven     *)
(* codes is the code of some value.                                        *)
C2_ErrorCodeTable ==
    /\ Cardinality(Codes) = 11
    /\ {error_code(e) : e \in AiError} = Codes
    /\ Called("error_code") =>
          /\ Result("error_code") = RefCode[self.tag]
          /\ Result("error_code") \in Codes
          /\ Len(Result("error_code")) > 0
          /\ self.tag \in OwnCode =>
                \A e \in AiError :
                    error_code(e) = Result("error_code") => e.tag = self.tag

C2_Witness ==
    /\ self.tag = "InvalidToolInput"
    /\ ret["error_code"] = Some("TOOL_ERROR")

(* C3: on a RateLimit value retry_after returns exactly the optional       *)
(* duration the value carries, and is_retryable returns true also when it  *)
(* carries none.                                                           *)
C3_RateLimitCarriedDelay ==
    self.tag = "RateLimit" =>
        /\ Called("retry_after") => Result("retry_after") = self.retry_after
        /\ Called("is_retryable") => Result("is_retryable") = TRUE

C3_Witness ==
    /\ self.tag = "RateLimit"
    /\ self.retry_after = None
    /\ ret["retry_after"] = Some(None)
    /\ ret["is_retryable"] = Some(TRUE)

(* C4: retry_after returns one second on every Network value and two       *)
(* seconds on every Timeout value, whatever the value carries; the         *)
(* Timeout delay is the longer.                                            *)
C4_FixedDelays ==
    /\ (self.tag = "Network" /\ Called("retry_after")) =>
          Result("retry_after") = Some(from_secs(1))
    /\ (self.tag = "Timeout" /\ Called("retry_after")) =>
          Result("retry_after") = Some(from_secs(2))
    /\ \A n \in AiErrorOf("Network"), t \in AiErrorOf("Timeout") :
          retry_after(t)[1].secs > retry_after(n)[1].secs

C4_Witness ==
    /\ self.tag = "Timeout"
    /\ self.f0 = from_secs(3)
    /\ ret["retry_after"] = Some(Some(from_secs(2)))

(* C5: retry_after returns nothing on a value of a variant other than      *)
(* RateLimit, Network and Timeout; whenever it has returned a duration,    *)
(* is_retryable returns true on the same value.                            *)
C5_NoDelayUnlessRetryable ==
    Called("retry_after") =>
        /\ self.tag \notin Transient => Result("retry_after") = None
        /\ (Result("retry_after") # None /\ Called("is_retryable")) =>
              Result("is_retryable") = TRUE

C5_Witness ==
    /\ self.tag = "Provider"
    /\ self.code # None
    /\ ret["retry_after"] = Some(None)
    /\ ret["is_retryable"] = Some(FALSE)

(* C6: what error_code and is_retryable returned on the value is what      *)
(* they return on every value of the same variant, whatever its payload.   *)
C6_PayloadIgnored ==
    \A b \in AiErrorOf(self.tag) :
        /\ Called("error_code") => error_code(b) = Result("error_code")
        /\ Called("is_retryable") => is_retryable(b) = Result("is_retryable")

C6_Witness ==
    /\ self.tag = "Provider"
    /\ self.code # None
    /\ Called("error_code")
    /\ Called("is_retryable")
    /\ \E b \in AiErrorOf(self.tag) : b.code = None /\ b.message # self.message

(* C7: a call of error_code, is_retryable or retry_after leaves the       *)
(* value as it was, returns a value of the method's result type, and       *)
(* returns what the first call of the same method returned.                *)
C7_CallsAreStable ==
    [][/\ self' = self
       /\ \A op \in Ops \ {"fmt"} :
             first[op] # None => ret'[op] = first[op]
       /\ Called("error_code")' => Result("error_code")' \in Codes
       /\ Called("is_retryable")' => Result("is_retryable")' \in BOOLEAN
       /\ Called("retry_after")' => Result("retry_after")' \in Option(Duration)
      ]_vars

C7_Witness ==
    /\ self.tag = "RateLimit"
    /\ self.retry_after # None
    /\ Called("error_code")
    /\ Called("is_retryable")
    /\ Called("retry_after")
    /\ ~Called("fmt")
    /\ ncalls = 4

(* C8: the text of a Network or Serialization value converted from a       *)
(* foreign fault contains the fault's own message text as a contiguous     *)
(* substring.                                                              *)
C8_ForeignTextPreserved ==
    (origin # None /\ Called("fmt")) =>
        Contains(Result("fmt"), ForeignDisplay(origin[1]))

C8_Witness ==
    /\ origin # None
    /\ self.tag = "Serialization"
    /\ ForeignDisplay(origin[1]) = "e:"
    /\ ret["fmt"] = Some("Serialization error: e:")

(* C9, as stated: the variants on which is_retryable returns false number  *)
(* exactly ten.                                                            *)
C9_TenNonRetryable ==
    ret["is_retryable"] = Some(FALSE) =>
        /\ self.tag \in NonRetryableVariants
        /\ NonRetryableVariants = Variant \ Transient
        /\ Cardinality(NonRetryableVariants) = 10

(* C9, amended: out of the fourteen variants, those other than RateLimit,  *)
(* Network and Timeout, on which is_retryable returns false, number        *)
(* exactly eleven.                                                         *)
C9_ElevenNonRetryable ==
    ret["is_retryable"] = Some(FALSE) =>
        /\ Cardinality(Variant) = 14
        /\ self.tag \in NonRetryableVariants
        /\ NonRetryableVariants = Variant \ Transient
        /\ Cardinality(NonRetryableVariants) = 11

C9_Witness ==
    /\ self.tag = "Config"
    /\ ret["is_retryable"] = Some(FALSE)

(* C10: every value with the code error_code returned on this value gets   *)
(* from is_retryable what this value got, and that is true exactly when    *)
(* the code is RATE_LIMIT_ERROR, NETWORK_ERROR or TIMEOUT_ERROR.           *)
C10_CodeDeterminesRetryable ==
    (Called("error_code") /\ Called("is_retryable")) =>
        /\ \A b \in AiError :
              error_code(b) = Result("error_code") =>
                  is_retryable(b) = Result("is_retryable")
        /\ Result("is_retryable") <=>
              Result("error_code") \in
                  {"RATE_LIMIT_ERROR", "NETWORK_ERROR", "TIMEOUT_ERROR"}

C10_Witness ==
    /\ self.tag = "NoSuchTool"
    /\ ret["error_code"] = Some("TOOL_ERROR")
    /\ ret["is_retryable"] = Some(FALSE)

=============================================================================
